---------------------------- MODULE Spec2Model ----------------------------
(***************************************************************************)
(* A model of the signal-decision engine (signals.py) and of the two       *)
(* polling loops (ai_eth_30m_bot.py, eth_30m_bot.py).                      *)
(*                                                                         *)
(* Numbers.  Probabilities and sentiment scores are floats in the source;  *)
(* here they are exact integers in hundredths (0.55 is 55, -0.10 is -10).  *)
(* Blend weights are in tenths (0.6 is 6), so a blended score is in        *)
(* thousandths (0.1 is 100).                                               *)
(***************************************************************************)
EXTENDS Integers, Sequences, FiniteSets, TLC

VARIABLES
    pc,          \* position of the function or loop being run
    cfg,         \* decide_direction: the configuration mapping (a partial function)
    proba_up,    \* decide_direction: result of price_model_signal, hundredths
    s_news,      \* decide_direction: result of news_sentiment, hundredths
    side,        \* decide_direction: the decision, "none" before the call
    texts,       \* _hf_sentiment_finbert: the headlines passed in
    hf_token,    \* _hf_sentiment_finbert: the bearer token, "" when unset
    scores,      \* _hf_sentiment_finbert: the list being built, then returned
    outs,        \* what the sentiment API did for each headline processed so far
    cfg_news,    \* news_sentiment: the "news" sub-configuration (a partial function)
    cp_key,      \* news_sentiment: CRYPTOPANIC_API_KEY, "" when unset
    na_key,      \* news_sentiment: NEWSAPI_KEY, "" when unset
    titles,      \* news_sentiment: the headlines obtained so far
    cp_out,      \* what the CryptoPanic request did, if it was made
    na_out,      \* what the NewsAPI request did, if it was made
    avg_score,   \* news_sentiment: the value returned, as <<sum, count>>
    df,          \* price_model_signal: the candles' closes, oldest first
    horizon_bars, \* price_model_signal: bars ahead the label looks
    min_proba,   \* price_model_signal: confidence threshold, hundredths
    df_feat,     \* price_model_signal: the feature rows kept by build_features
    y,           \* price_model_signal: the label of each feature row
    train,       \* price_model_signal: positions of df_feat the classifier was fit on
    pm_out,      \* price_model_signal: the (proba_up, flag) returned
    bot,         \* run_loop: "ai" (ai_eth_30m_bot.py) or "eth" (eth_30m_bot.py)
    dry,         \* run_loop: cfg dry_run
    entry_ty,    \* run_loop: cfg entry_type
    pos_open,    \* the exchange: a position on the symbol is open
    resting,     \* the exchange: limit entry orders placed and not yet filled
    has_pos,     \* run_loop: what the position check of this cycle concluded
    notes,       \* the notifications sent (tg) in this cycle
    calls,       \* the state-changing exchange calls made in this cycle, in order
    failed,      \* the stages of this cycle in which a call raised
    tp_ok,       \* open_position / place_entry_with_tpsl: tp_ok
    sl_ok,       \* open_position / place_entry_with_tpsl: sl_ok
    cycles       \* evaluation cycles completed

decideVars == <<cfg, proba_up, s_news, side>>
sentVars   == <<texts, hf_token, scores, outs>>
newsVars   == <<cfg_news, cp_key, na_key, titles, cp_out, na_out, avg_score>>

modelVars  == <<df, horizon_bars, min_proba, df_feat, y, train, pm_out>>

loopVars   == <<bot, dry, entry_ty, pos_open, resting, has_pos, notes, calls,
                failed, tp_ok, sl_ok, cycles>>

vars == <<pc, decideVars, sentVars, newsVars, modelVars, loopVars>>

\* The variables each function leaves alone because they belong to another.
notDecide == <<sentVars, newsVars, modelVars, loopVars>>
notSent   == <<decideVars, newsVars, modelVars, loopVars>>
notNews   == <<cfg, proba_up, s_news, side, scores, outs, modelVars, loopVars>>
notModel  == <<decideVars, sentVars, newsVars, loopVars>>
notLoop   == <<cfg, sentVars, newsVars, modelVars>>

---------------------------------------------------------------------------
(* Python helpers *)

\* dict.get(key, default)
Get(d, k, default) == IF k \in DOMAIN d THEN d[k] ELSE default

\* The empty dict.
EmptyDict == [k \in {} |-> 0]

\* What each group of variables holds while another function is being run.
IdleDecide == cfg = EmptyDict /\ proba_up = 50 /\ s_news = 0 /\ side = "none"
IdleSentiment == texts = <<>> /\ hf_token = "" /\ scores = <<>> /\ outs = <<>>
NotCalled == [kind |-> "not_called"]
IdleNews ==
    /\ cfg_news = EmptyDict /\ cp_key = "" /\ na_key = "" /\ titles = <<>>
    /\ cp_out = NotCalled /\ na_out = NotCalled /\ avg_score = <<0, 1>>
Neutral == [proba_up |-> 50, flag |-> 0]
IdleModel ==
    /\ df = <<>> /\ horizon_bars = 3 /\ min_proba = 55 /\ df_feat = <<>>
    /\ y = <<>> /\ train = {} /\ pm_out = Neutral
IdleLoop ==
    /\ bot = "ai" /\ dry = FALSE /\ entry_ty = "market" /\ pos_open = FALSE
    /\ resting = 0 /\ has_pos = FALSE /\ notes = {} /\ calls = <<>>
    /\ failed = {} /\ tp_ok = TRUE /\ sl_ok = TRUE /\ cycles = 0

---------------------------------------------------------------------------
(* signals.decide_direction *)

DefaultMinProba     == 55
DefaultMinNews      == 10
DefaultMaxNewsShort == -10
DefaultWeightPrice  == 6
DefaultWeightNews   == 4
BlendThreshold      == 100
Half                == 50

\* price_comp = (proba_up - 0.5) * 2.0 ; blended = w_p * price_comp + w_n * s_news
price_comp(p) == (p - Half) * 2

blended(p, s, c) ==
    Get(c, "blend_weight_price", DefaultWeightPrice) * price_comp(p)
        + Get(c, "blend_weight_news", DefaultWeightNews) * s

\* A slip a rewrite could make: strict comparisons on the blended score.
decide_direction_strict(p, s, c) ==
    IF /\ blended(p, s, c) > BlendThreshold
       /\ p >= Get(c, "min_price_model_proba", DefaultMinProba)
       /\ s >= Get(c, "min_news_sentiment", DefaultMinNews)
    THEN "long"
    ELSE IF /\ blended(p, s, c) < -BlendThreshold
            /\ (100 - p) >= Get(c, "min_price_model_proba", DefaultMinProba)
            /\ s <= Get(c, "max_news_sentiment_for_short", DefaultMaxNewsShort)
         THEN "short"
         ELSE "skip"

\* A slip a rewrite could make: the long rule forgets the sentiment floor.
decide_direction_nonews(p, s, c) ==
    IF /\ blended(p, s, c) >= BlendThreshold
       /\ p >= Get(c, "min_price_model_proba", DefaultMinProba)
    THEN "long"
    ELSE IF /\ blended(p, s, c) <= -BlendThreshold
            /\ (100 - p) >= Get(c, "min_price_model_proba", DefaultMinProba)
            /\ s <= Get(c, "max_news_sentiment_for_short", DefaultMaxNewsShort)
         THEN "short"
         ELSE "skip"

\* side = "skip"; if ...: side = "long"; elif ...: side = "short"
decide_direction(p, s, c) ==
    IF /\ blended(p, s, c) >= BlendThreshold
       /\ p >= Get(c, "min_price_model_proba", DefaultMinProba)
       /\ s >= Get(c, "min_news_sentiment", DefaultMinNews)
    THEN "long"
    ELSE IF /\ blended(p, s, c) <= -BlendThreshold
            /\ (100 - p) >= Get(c, "min_price_model_proba", DefaultMinProba)
            /\ s <= Get(c, "max_news_sentiment_for_short", DefaultMaxNewsShort)
         THEN "short"
         ELSE "skip"

\* Inputs: proba_up over [0,1] and sentiment over [-1,1] in steps of 0.05.
ProbaGrid == {5 * k : k \in 0..20}
SentGrid  == {5 * k - 100 : k \in 0..40}

\* Configurations: every key is either absent (the default applies) or set.
CfgAllowed ==
    [blend_weight_price           |-> {0, 10},
     blend_weight_news            |-> {0, 10},
     min_price_model_proba        |-> {50, 60},
     min_news_sentiment           |-> {0},
     max_news_sentiment_for_short |-> {0}]

CfgKeys == DOMAIN CfgAllowed

CfgVals == UNION {CfgAllowed[k] : k \in CfgKeys}

Configs ==
    {c \in UNION {[S -> CfgVals] : S \in SUBSET CfgKeys} :
        \A k \in DOMAIN c : c[k] \in CfgAllowed[k]}

InitDecide ==
    /\ pc = "decide"
    /\ cfg \in Configs
    /\ proba_up \in ProbaGrid
    /\ s_news \in SentGrid
    /\ side = "none"
    /\ IdleSentiment
    /\ IdleNews
    /\ IdleModel
    /\ IdleLoop

DecideDirection ==
    /\ pc = "decide"
    /\ side' = decide_direction(proba_up, s_news, cfg)
    /\ pc' = "decided"
    /\ UNCHANGED <<cfg, proba_up, s_news, notDecide>>

SpecDecide == InitDecide /\ [][DecideDirection]_vars

---------------------------------------------------------------------------
(* Claims about decide_direction *)

LongRule(p, s, c) ==
    /\ blended(p, s, c) >= 100
    /\ p >= Get(c, "min_price_model_proba", 55)
    /\ s >= Get(c, "min_news_sentiment", 10)

ShortRule(p, s, c) ==
    /\ blended(p, s, c) <= -100
    /\ (100 - p) >= Get(c, "min_price_model_proba", 55)
    /\ s <= Get(c, "max_news_sentiment_for_short", -10)

\* C1: once decide_direction has returned, the decision is "long" exactly when
\* the long rule holds, "short" exactly when the long rule fails and the short
\* rule holds, and "skip" exactly when neither holds.
C1_FirstMatchWins ==
    pc = "decided" =>
        /\ side = "long"  <=> LongRule(proba_up, s_news, cfg)
        /\ side = "short" <=> (~LongRule(proba_up, s_news, cfg)
                                  /\ ShortRule(proba_up, s_news, cfg))
        /\ side = "skip"  <=> (~LongRule(proba_up, s_news, cfg)
                                  /\ ~ShortRule(proba_up, s_news, cfg))

\* A short decision taken with the blended score exactly on the -0.1 threshold.
C1_Witness ==
    /\ pc = "decided"
    /\ side = "short"
    /\ blended(proba_up, s_news, cfg) = -100

UsesDefaultNewsThresholds(c) ==
    /\ Get(c, "min_news_sentiment", 10) = 10
    /\ Get(c, "max_news_sentiment_for_short", -10) = -10

\* C2: with the default news thresholds, a sentiment of exactly 0.0 always
\* gives "skip", whatever the price model's probability and the weights.
C2_ZeroSentimentSkips ==
    (pc = "decided" /\ s_news = 0 /\ UsesDefaultNewsThresholds(cfg))
        => side = "skip"

\* Zero sentiment with a price signal that clears the blend and probability
\* thresholds on its own, and the decision is still "skip".
C2_Witness ==
    /\ pc = "decided"
    /\ s_news = 0
    /\ UsesDefaultNewsThresholds(cfg)
    /\ blended(proba_up, s_news, cfg) >= 100
    /\ proba_up >= Get(cfg, "min_price_model_proba", 55)
    /\ side = "skip"

---------------------------------------------------------------------------
(* signals._hf_sentiment_finbert *)

MaxTexts == 3

\* One {label, score} dict of the API's answer; scores in hundredths.
Entry(l, sc) == [label |-> l, score |-> sc]

\* What requests.post / raise_for_status / resp.json can do for one headline:
\* raise, or hand back a JSON value.  A JSON array is kind "list": of says
\* what its elements are ("dict" for the flat shape [{label, score}, ...],
\* "list" for the nested shape [[{label, score}, ...]]).  A JSON object with
\* "label" and "score" is kind "dict"; any other JSON value is "other".
ProviderErrors ==
    {[kind |-> "network_error"], [kind |-> "http_error"], [kind |-> "json_error"]}

FlatLists ==
    {<< >>,
     <<EmptyDict>>,
     <<Entry("positive", 70)>>,
     <<Entry("negative", 20)>>,
     <<Entry("positive", 70), Entry("negative", 20), Entry("neutral", 10)>>,
     <<Entry("neutral", 10), Entry("negative", 60), Entry("positive", 30)>>}

ListResponses ==
    {[kind |-> "list", of |-> "dict", items |-> its] : its \in FlatLists}
        \cup {[kind |-> "list", of |-> "list", items |-> <<its>>] :
                  its \in {<<Entry("positive", 70), Entry("negative", 20)>>}}

DictResponses ==
    {[kind |-> "dict", label |-> l, score |-> sc] :
        l \in {"positive", "Positive", "negative", "NEGATIVE", "neutral"},
        sc \in {20, 70}}

Responses ==
    ProviderErrors \cup ListResponses \cup DictResponses \cup {[kind |-> "other"]}

IsError(out) == out \in ProviderErrors

\* str.lower()
Lower(l) ==
    CASE l = "Positive" -> "positive"
      [] l = "NEGATIVE" -> "negative"
      [] OTHER -> l

\* The outcome of the try block for one headline: a value to append, or an
\* exception (which the except clause turns into 0.0).
Value(v)  == [raised |-> FALSE, value |-> v]
Raised    == [raised |-> TRUE, value |-> 0]

\* next((x['score'] for x in out[0] if x.get('label','').lower()==wanted), 0.0)
\* Iterating the dict out[0] yields its keys, which are strings: the first
\* x.get raises AttributeError.  Only an empty dict reaches the default.
first_score(d, wanted) == IF DOMAIN d = {} THEN Value(0) ELSE Raised

try_block(out) ==
    IF IsError(out) THEN Raised
    ELSE IF out.kind = "list" /\ Len(out.items) > 0 /\ out.of = "dict"
    THEN LET pos_score == first_score(out.items[1], "positive")
             neg_score == first_score(out.items[1], "negative")
         IN  IF pos_score.raised \/ neg_score.raised
             THEN Raised
             ELSE Value(pos_score.value - neg_score.value)
    ELSE IF out.kind = "dict"
    THEN LET label == Lower(out.label)
             sc    == out.score
         IN  IF label = "positive" THEN Value(sc)
             ELSE IF label = "negative" THEN Value(0 - sc)
             ELSE Value(0)
    ELSE Value(0)

\* The element appended to scores for one headline.
hf_score(out) == LET r == try_block(out) IN IF r.raised THEN 0 ELSE r.value

InitSentiment ==
    /\ pc = "hf_guard"
    /\ \E n \in 0..MaxTexts : texts = [i \in 1..n |-> i]
    /\ hf_token \in {"", "hf_token"}
    /\ scores = << >>
    /\ outs = << >>
    /\ IdleDecide
    /\ IdleNews
    /\ IdleModel
    /\ IdleLoop

\* if not texts or not hf_token: return []
HfGuard ==
    /\ pc = "hf_guard"
    /\ pc' = IF texts = << >> \/ hf_token = "" THEN "hf_returned" ELSE "hf_loop"
    /\ UNCHANGED <<sentVars, notSent>>

\* A slip a rewrite could make: one try around the whole loop, so the first
\* provider error ends the batch with the scores gathered so far.
HfStep_abort ==
    /\ pc = "hf_loop"
    /\ Len(scores) < Len(texts)
    /\ \E out \in Responses :
        /\ outs' = Append(outs, out)
        /\ IF try_block(out).raised
           THEN scores' = scores /\ pc' = "hf_returned"
           ELSE scores' = Append(scores, hf_score(out)) /\ pc' = pc
    /\ UNCHANGED <<texts, hf_token, notSent>>

\* One iteration of "for t in texts": the request, the parse, the append.
HfStep ==
    /\ pc = "hf_loop"
    /\ Len(scores) < Len(texts)
    /\ \E out \in Responses :
        /\ outs' = Append(outs, out)
        /\ scores' = Append(scores, hf_score(out))
    /\ UNCHANGED <<pc, texts, hf_token, notSent>>

\* return scores
HfReturn ==
    /\ pc = "hf_loop"
    /\ Len(scores) = Len(texts)
    /\ pc' = "hf_returned"
    /\ UNCHANGED <<sentVars, notSent>>

NextSentiment == HfGuard \/ HfStep \/ HfReturn

SpecSentiment == InitSentiment /\ [][NextSentiment]_vars

---------------------------------------------------------------------------
(* Claims about _hf_sentiment_finbert *)

\* C3 as stated: whenever the function has returned, the output is as long as
\* the input and holds 0.0 at every headline whose request failed.
C3_SameLengthAlways ==
    pc = "hf_returned" =>
        /\ Len(scores) = Len(texts)
        /\ \A k \in 1..Len(scores) : IsError(outs[k]) => scores[k] = 0

\* C3 amended: when the token is set, the returned list is as long as the
\* input, a provider error on headline k gives 0.0 at k and the loop goes on to
\* the next headline, and no step changes an element already emitted.
C3_SameLengthWithToken ==
    /\ [](hf_token # "" =>
            /\ pc = "hf_returned" => Len(scores) = Len(texts)
            /\ Len(outs) = Len(scores)
            /\ \A k \in 1..Len(scores) : IsError(outs[k]) => scores[k] = 0)
    /\ [][hf_token # "" =>
            /\ Len(scores') >= Len(scores)
            /\ \A j \in 1..Len(scores) : scores'[j] = scores[j]]_vars

\* A returned batch of at least two headlines where one request failed and
\* another headline still got a non-zero score.
C3_Witness ==
    /\ pc = "hf_returned"
    /\ hf_token # ""
    /\ Len(texts) >= 2
    /\ \E k, j \in 1..Len(scores) :
        /\ k < j
        /\ IsError(outs[k]) /\ scores[k] = 0
        /\ ~IsError(outs[j]) /\ scores[j] # 0

RECURSIVE LabelScore(_, _)
\* The score of the first entry carrying the label, 0.0 when there is none.
LabelScore(items, wanted) ==
    IF items = << >> THEN 0
    ELSE IF Lower(Head(items).label) = wanted THEN Head(items).score
    ELSE LabelScore(Tail(items), wanted)

IsLabelList(out) ==
    /\ out.kind = "list"
    /\ out.of = "dict"
    /\ Len(out.items) > 0
    /\ \A i \in 1..Len(out.items) : DOMAIN out.items[i] = {"label", "score"}

\* C4: the score emitted for a list of {label, score} pairs is P(positive)
\* minus P(negative), and for a single {label, score} object it is +score,
\* -score or 0.0 by label.
C4_PositiveMinusNegative ==
    \A k \in 1..Len(scores) :
        /\ IsLabelList(outs[k]) =>
              scores[k] = LabelScore(outs[k].items, "positive")
                              - LabelScore(outs[k].items, "negative")
        /\ outs[k].kind = "dict" =>
              scores[k] = (CASE Lower(outs[k].label) = "positive" -> outs[k].score
                             [] Lower(outs[k].label) = "negative" -> 0 - outs[k].score
                             [] OTHER -> 0)

---------------------------------------------------------------------------
(* signals._fetch_news_cryptopanic, _fetch_news_newsapi, news_sentiment *)

MaxItems           == 3
MaxH               == 3
DefaultMaxHeadlines == 12

Min(a, b) == IF a < b THEN a ELSE b

\* A headline of the returned list: title 0 is the empty string, title i > 0
\* is the text of the provider's i-th item; old is the " (old)" suffix.
Headline(t, o) == [title |-> t, old |-> o]

\* What the CryptoPanic request can do: raise (network, HTTP status, JSON), or
\* hand back results.  Item i's title, after "title or slug or ''" and strip,
\* is empty (0) or its own text (i); pub says where published_at falls against
\* the cutoff, or that it does not parse.
\* A published_at that parses carries a UTC offset, as the provider's
\* "...Z" timestamps do, so that it compares with the cutoff.
CpResults ==
    UNION {{[i \in 1..n |-> [title |-> IF e[i] THEN 0 ELSE i, pub |-> p[i]]] :
               e \in [1..n -> BOOLEAN], p \in [1..n -> {"fresh", "old", "unparsable"}]} :
           n \in 0..MaxItems}

CpOutcomes == {[kind |-> "error"]} \cup {[kind |-> "ok", results |-> r] : r \in CpResults}

RECURSIVE cp_loop_drop_old(_, _, _)
\* A slip a rewrite could make: items older than the cutoff are left out.
cp_loop_drop_old(results, acc, max_headlines) ==
    IF results = << >> THEN acc
    ELSE LET item == Head(results)
         IN  IF item.title = 0 \/ item.pub = "old"
             THEN cp_loop_drop_old(Tail(results), acc, max_headlines)
             ELSE LET appended == Append(acc, Headline(item.title, FALSE))
                  IN  IF Len(appended) >= max_headlines
                      THEN appended
                      ELSE cp_loop_drop_old(Tail(results), appended, max_headlines)

RECURSIVE cp_loop(_, _, _)
\* for idx, item in enumerate(results): ... append ... break
cp_loop(results, acc, max_headlines) ==
    IF results = << >> THEN acc
    ELSE LET item == Head(results)
         IN  IF item.title = 0
             THEN cp_loop(Tail(results), acc, max_headlines)
             ELSE LET appended == Append(acc, Headline(item.title, item.pub = "old"))
                  IN  IF Len(appended) >= max_headlines
                      THEN appended
                      ELSE cp_loop(Tail(results), appended, max_headlines)

_fetch_news_cryptopanic(api_key, out, max_headlines) ==
    IF api_key = "" THEN << >>
    ELSE IF out.kind = "error" THEN << >>
    ELSE cp_loop(out.results, << >>, max_headlines)

\* What the NewsAPI request can do: raise, or hand back articles.  An
\* article's title is missing or empty ("none"), only whitespace ("blank"), or
\* its own text ("text").
NaArticles ==
    UNION {[1..n -> {"none", "blank", "text"}] : n \in 0..MaxItems}

NaOutcomes == {[kind |-> "error"]} \cup {[kind |-> "ok", articles |-> a] : a \in NaArticles}

\* [(a.get("title") or "").strip() for a in articles if a.get("title")]
na_titles(articles) ==
    LET idx  == [i \in 1..Len(articles) |-> i]
        kept == SelectSeq(idx, LAMBDA i : articles[i] # "none")
    IN  [j \in 1..Len(kept) |->
            Headline(IF articles[kept[j]] = "blank" THEN 0 ELSE kept[j], FALSE)]

\* return titles[:max_headlines]
_fetch_news_newsapi(api_key, out, max_headlines) ==
    IF api_key = "" THEN << >>
    ELSE IF out.kind = "error" THEN << >>
    ELSE LET t == na_titles(out.articles)
         IN  SubSeq(t, 1, Min(max_headlines, Len(t)))

\* maxh = int(cfg_news.get("max_headlines", 12))
maxh == Get(cfg_news, "max_headlines", DefaultMaxHeadlines)

\* source = (cfg_news.get("source", "cryptopanic")).lower()
source ==
    LET raw == Get(cfg_news, "source", "cryptopanic")
    IN  IF raw = "CryptoPanic" THEN "cryptopanic" ELSE raw

NewsSources == {"cryptopanic", "CryptoPanic", "newsapi"}

\* The "news" sub-configuration: each key is absent (the default applies) or set.
NewsConfigs ==
    {EmptyDict}
        \cup {[max_headlines |-> m] : m \in 0..MaxH}
        \cup {[source |-> src] : src \in NewsSources}
        \cup {[max_headlines |-> m, source |-> src] : m \in 0..MaxH, src \in NewsSources}

Keys == {"", "key"}

InitNews ==
    /\ pc = "ns_preferred"
    /\ cfg_news \in NewsConfigs
    /\ cp_key \in Keys
    /\ na_key \in Keys
    /\ hf_token \in Keys
    /\ titles = << >>
    /\ cp_out = NotCalled
    /\ na_out = NotCalled
    /\ avg_score = <<0, 1>>
    /\ texts = << >>
    /\ scores = << >>
    /\ outs = << >>
    /\ IdleDecide
    /\ IdleModel
    /\ IdleLoop

\* titles = []
\* if source == "cryptopanic" and cp_key: titles = _fetch_news_cryptopanic(...)
NsPreferred ==
    /\ pc = "ns_preferred"
    /\ IF source = "cryptopanic" /\ cp_key # ""
       THEN \E out \in CpOutcomes :
               /\ cp_out' = out
               /\ titles' = _fetch_news_cryptopanic(cp_key, out, maxh)
       ELSE UNCHANGED <<cp_out, titles>>
    /\ pc' = "ns_fallback"
    /\ UNCHANGED <<cfg_news, cp_key, na_key, na_out, avg_score, texts, hf_token, notNews>>

\* if not titles and na_key: titles = _fetch_news_newsapi(...)
NsFallback ==
    /\ pc = "ns_fallback"
    /\ IF titles = << >> /\ na_key # ""
       THEN \E out \in NaOutcomes :
               /\ na_out' = out
               /\ titles' = _fetch_news_newsapi(na_key, out, maxh)
       ELSE UNCHANGED <<na_out, titles>>
    /\ pc' = "ns_titles"
    /\ UNCHANGED <<cfg_news, cp_key, na_key, cp_out, avg_score, texts, hf_token, notNews>>

\* if not titles: return 0.0
NsNoTitles ==
    /\ pc = "ns_titles"
    /\ titles = << >>
    /\ avg_score' = <<0, 1>>
    /\ pc' = "ns_returned"
    /\ UNCHANGED <<cfg_news, cp_key, na_key, titles, cp_out, na_out, texts, hf_token, notNews>>

RECURSIVE Sum(_)
Sum(seq) == IF seq = << >> THEN 0 ELSE Head(seq) + Sum(Tail(seq))

\* The sentiment API's behaviours that news_sentiment's result can tell apart.
ScoringResponses ==
    {[kind |-> "network_error"],
     [kind |-> "dict", label |-> "positive", score |-> 70],
     [kind |-> "dict", label |-> "negative", score |-> 70]}

\* scores = _hf_sentiment_finbert(titles, hf_key)
\* if not scores: return 0.0
\* avg_score = float(np.mean(scores)); return avg_score
NsScore ==
    /\ pc = "ns_titles"
    /\ titles # << >>
    /\ texts' = titles
    /\ IF hf_token = ""
       THEN avg_score' = <<0, 1>>
       ELSE \E o \in [1..Len(titles) -> ScoringResponses] :
               LET sc == [k \in 1..Len(titles) |-> hf_score(o[k])]
               IN  avg_score' = <<Sum(sc), Len(sc)>>
    /\ pc' = "ns_returned"
    /\ UNCHANGED <<cfg_news, cp_key, na_key, titles, cp_out, na_out, hf_token, notNews>>

NextNews == NsPreferred \/ NsFallback \/ NsNoTitles \/ NsScore

SpecNews == InitNews /\ [][NextNews]_vars

---------------------------------------------------------------------------
(* Claims about the news aggregator *)

\* C5: the list of headlines news_sentiment holds never has more than
\* max_headlines elements.
C5_AtMostMaxHeadlines == Len(titles) <= maxh

\* What each source yields: nothing when its key is missing, when its request
\* was not made or failed, else the list its function builds.
CryptoPanicYield ==
    IF cp_out.kind = "not_called" THEN << >>
    ELSE _fetch_news_cryptopanic(cp_key, cp_out, maxh)

NewsApiYield ==
    IF na_out.kind = "not_called" THEN << >>
    ELSE _fetch_news_newsapi(na_key, na_out, maxh)

\* C6: once the headlines are settled, if the preferred source yielded none
\* then the secondary source was asked (unless its key is missing, in which
\* case it yields nothing without a request) and its output is the result;
\* for CryptoPanic preferred and NewsAPI secondary, and the other way round.
C6_SecondaryUsed ==
    pc \in {"ns_titles", "ns_returned"} =>
        IF source = "cryptopanic"
        THEN CryptoPanicYield = << >> =>
                /\ na_key = "" \/ na_out.kind # "not_called"
                /\ titles = NewsApiYield
        ELSE NewsApiYield = << >> =>
                /\ cp_key = "" \/ cp_out.kind # "not_called"
                /\ titles = CryptoPanicYield

\* The provider's items with a non-empty title, in the provider's order, each
\* as the headline it becomes: marked old when published before the cutoff.
MarkedItems(results) ==
    LET idx  == [i \in 1..Len(results) |-> i]
        kept == SelectSeq(idx, LAMBDA i : results[i].title # 0)
    IN  [j \in 1..Len(kept) |->
            Headline(results[kept[j]].title, results[kept[j]].pub = "old")]

\* The headlines held are those _fetch_news_cryptopanic returned: its request
\* came back with results, and NewsAPI has not replaced an empty list.
FromCryptoPanic ==
    /\ pc # "ns_preferred"
    /\ cp_out.kind = "ok"
    /\ pc = "ns_fallback" \/ MarkedItems(cp_out.results) # << >>

\* C12: the list _fetch_news_cryptopanic returns is a prefix of the provider's
\* items with a non-empty title, in the provider's order, an item published
\* before the cutoff being kept and marked old; the list stops short of those
\* items only where its length, old items counted like fresh ones, has
\* reached max_headlines, and no item is appended after that; and the list
\* news_sentiment holds, old items included, is the one handed to the scorer.
C12_OldItemsKept ==
    /\ FromCryptoPanic =>
          LET m == MarkedItems(cp_out.results)
              k == Len(titles)
          IN  /\ k <= Len(m)
              /\ titles = SubSeq(m, 1, k)
              /\ k < Len(m) => k >= maxh
              /\ k >= 2 => k - 1 < maxh
    /\ (pc = "ns_returned" /\ titles # << >>) => texts = titles

\* news_sentiment returned after CryptoPanic gave an item with an empty title,
\* then an old item and a fresh one: the old one is in the list with its mark,
\* it filled one of the max_headlines places, and the list went to the scorer.
C12_Witness ==
    /\ pc = "ns_returned"
    /\ FromCryptoPanic
    /\ hf_token # ""
    /\ maxh = 2
    /\ Len(cp_out.results) = 3
    /\ cp_out.results[1].title = 0
    /\ cp_out.results[2].pub = "old"
    /\ titles = <<Headline(2, TRUE), Headline(3, FALSE)>>
    /\ texts = titles

---------------------------------------------------------------------------
(* signals.build_features, make_label, price_model_signal *)

MaxCandles     == 102
MaxHorizon     == 3
AtrWindow      == 14
BbWindow       == 20
Ema50Window    == 50
MinRows        == 50

\* Candle series: the close of bar i (1-based) of an n-bar series.
Patterns == {"rising", "falling", "flat", "zigzag", "flat_tail"}

Close(pattern, i, n) ==
    CASE pattern = "rising"    -> 100 + i
      [] pattern = "falling"   -> 300 - i
      [] pattern = "flat"      -> 100
      [] pattern = "zigzag"    -> 100 + (i % 2)
      [] pattern = "flat_tail" -> IF i < n - 24 THEN 100 + i ELSE 100 + n

Candles(pattern, n) == [i \in 1..n |-> Close(pattern, i, n)]

\* AverageTrueRange(..., window=14) stores atr[window - 1] into an array of
\* len(close) elements before anything else: an IndexError on a frame of
\* fewer than 14 rows.  No other indicator of build_features raises.
atr_raises(closes) == Len(closes) < AtrWindow

\* price_bb_pos = (close - bb_low) / (bb_high - bb_low): the band of the 20
\* closes ending at bar i has zero width when they are all equal, and the
\* quotient is then NaN.
zero_width_band(closes, i) ==
    /\ i >= BbWindow
    /\ \A j \in (i - BbWindow + 1)..i : closes[j] = closes[i]

\* df.replace([inf, -inf], nan).dropna(): bar i is kept when every feature is
\* defined.  ema50 is the last to warm up (defined from bar 50 on); the
\* returns, rsi, ema20, macd, the bands and atr are defined before that.
row_kept(closes, i) == i >= Ema50Window /\ ~zero_width_band(closes, i)

\* The rows of df_feat, in order: the bar each came from, and its close.
build_features(closes) ==
    LET idx  == [i \in 1..Len(closes) |-> i]
        kept == SelectSeq(idx, LAMBDA i : row_kept(closes, i))
    IN  [j \in 1..Len(kept) |-> [bar |-> kept[j], close |-> closes[kept[j]]]]

\* fwd = close.shift(-horizon) / close - 1.0 ; (fwd > 0).astype(int)
\* The shift leaves NaN in the last `horizon` rows, and NaN > 0 is False: 0.
make_label(feat, horizon) ==
    [j \in 1..Len(feat) |->
        IF j + horizon <= Len(feat)
        THEN IF feat[j + horizon].close > feat[j].close THEN 1 ELSE 0
        ELSE 0]

\* if proba_up >= min_proba: 1 ; elif (1 - proba_up) >= min_proba: 0 ; else -1
flag_of(p, threshold) ==
    IF p >= threshold THEN 1
    ELSE IF (100 - p) >= threshold THEN 0
    ELSE -1

InitModel ==
    /\ pc = "pm_features"
    /\ \E pattern \in Patterns, n \in 0..MaxCandles : df = Candles(pattern, n)
    /\ horizon_bars \in 1..MaxHorizon
    /\ min_proba \in {50, 55}
    /\ df_feat = << >>
    /\ y = << >>
    /\ train = {}
    /\ pm_out = Neutral
    /\ IdleDecide
    /\ IdleSentiment
    /\ IdleNews
    /\ IdleLoop

\* df_feat = build_features(df); y = make_label(df_feat, horizon_bars)
\* X = df_feat[[...]]; y = y.iloc[:len(X)]; X = X.iloc[:len(y)]
PmFeatures ==
    /\ pc = "pm_features"
    /\ IF atr_raises(df)
       THEN /\ pc' = "pm_raised"
            /\ UNCHANGED <<df_feat, y>>
       ELSE /\ df_feat' = build_features(df)
            /\ y' = make_label(df_feat', horizon_bars)
            /\ pc' = "pm_rows"
    /\ UNCHANGED <<df, horizon_bars, min_proba, train, pm_out, notModel>>

\* if len(X) < 50: return 0.5, 0
PmTooFewRows ==
    /\ pc = "pm_rows"
    /\ Len(df_feat) < MinRows
    /\ pm_out' = Neutral
    /\ pc' = "pm_returned"
    /\ UNCHANGED <<df, horizon_bars, min_proba, df_feat, y, train, notModel>>

\* clf.fit(X.iloc[:-1], y.iloc[:-1]); proba_up = clf.predict_proba(X.iloc[[-1]])
\* LogisticRegression.fit raises ValueError when the labels it is given are
\* all of one class.  The fitted probability is any value of [0, 1].
PmFit ==
    /\ pc = "pm_rows"
    /\ Len(df_feat) >= MinRows
    /\ train' = 1..(Len(df_feat) - 1)
    /\ IF \A j, k \in train' : y[j] = y[k]
       THEN /\ pc' = "pm_raised"
            /\ UNCHANGED pm_out
       ELSE /\ \E p \in ProbaGrid :
                 pm_out' = [proba_up |-> p, flag |-> flag_of(p, min_proba)]
            /\ pc' = "pm_returned"
    /\ UNCHANGED <<df, horizon_bars, min_proba, df_feat, y, notModel>>

NextModel == PmFeatures \/ PmTooFewRows \/ PmFit

SpecModel == InitModel /\ [][NextModel]_vars

---------------------------------------------------------------------------
(* Claims about the direction classifier *)

\* The number of bars of a series whose features are all defined.
AlignedRows(closes) ==
    Cardinality({i \in 1..Len(closes) : i >= 50 /\ ~zero_width_band(closes, i)})

\* C7: whenever fewer than 50 aligned feature/label rows remain (none at all
\* included), price_model_signal ends by returning exactly (0.5, 0): it
\* neither raises nor fits a model.
C7_NeutralDefault ==
    (pc \in {"pm_returned", "pm_raised"} /\ AlignedRows(df) < 50) =>
        /\ pc = "pm_returned"
        /\ pm_out = [proba_up |-> 50, flag |-> 0]
        /\ train = {}

\* C8: every row the classifier is fit on has a defined label, that is, the
\* close `horizon` rows ahead exists and label = 1 iff it is greater; none of
\* the last `horizon` rows is a training row, and the scored (last) row is not.
C8_TrainingLabelsDefined ==
    \A j \in train :
        /\ j + horizon_bars <= Len(df_feat)
        /\ y[j] = 1 <=> df_feat[j + horizon_bars].close > df_feat[j].close
        /\ j # Len(df_feat)

---------------------------------------------------------------------------
(* ai_eth_30m_bot.run_loop / open_position and
   eth_30m_bot.run_loop / get_open_position_size / place_entry_with_tpsl *)

MaxCycles  == 2
MaxResting == 2

\* tg(...): one notification added to those of this cycle.  tg never raises.
tg(msg) == notes \cup {msg}

\* A call that changes the exchange's state, as logged: create_order with the
\* order's role, side and reduceOnly flag, whether it returned, and whether a
\* position was open on the exchange when it was submitted.
Order(role, order_side, reduce_only, ok) ==
    [fn |-> "create_order", role |-> role, side |-> order_side,
     reduceOnly |-> reduce_only, ok |-> ok, position_open |-> pos_open]

Leverage(fn, ok) == [fn |-> fn, ok |-> ok]

\* set_leverage_margin / apply_leverage_margin: setLeverage with the margin
\* mode; if that raises, setMarginMode then setLeverage, any error printed.
LeverageCalls ==
    {<<Leverage("setLeverage", TRUE)>>,
     <<Leverage("setLeverage", FALSE), Leverage("setMarginMode", FALSE)>>,
     <<Leverage("setLeverage", FALSE), Leverage("setMarginMode", TRUE),
       Leverage("setLeverage", FALSE)>>,
     <<Leverage("setLeverage", FALSE), Leverage("setMarginMode", TRUE),
       Leverage("setLeverage", TRUE)>>}

\* order_side = "buy" if side_dir == "long" else "sell" ; side_to_order
order_side(side_dir) == IF side_dir = "long" THEN "buy" ELSE "sell"
exit_side(side_dir)  == IF side_dir = "long" THEN "sell" ELSE "buy"

\* The inputs the AI loop's decision is taken on in a cycle.
LoopProba == {30, 50, 70}
LoopNews  == {-50, 0, 50}

InitLoop ==
    /\ pc = "cycle"
    /\ bot \in {"ai", "eth"}
    /\ dry \in BOOLEAN
    /\ entry_ty \in {"market", "limit"}
    /\ pos_open \in BOOLEAN
    /\ resting = 0
    /\ has_pos = FALSE
    /\ notes = {}
    /\ calls = << >>
    /\ failed = {}
    /\ tp_ok = TRUE
    /\ sl_ok = TRUE
    /\ cycles = 0
    /\ cfg = EmptyDict
    /\ proba_up = 50
    /\ s_news = 0
    \* eth_30m_bot reads the side from cfg["side"]; the AI bot decides it.
    /\ side \in IF bot = "eth" THEN {"long", "short", "flat"} ELSE {"none"}
    /\ IdleSentiment
    /\ IdleNews
    /\ IdleModel

\* What a step of the loop leaves alone besides what it names.
LoopFrame == UNCHANGED <<bot, dry, entry_ty, cycles, notLoop>>

\* The exception leaves the try block: control goes to the except clause.
Raise(stage) == failed' = failed \cup {stage} /\ pc' = "except"

\* ai: positions = ex.fetch_positions([symbol]); has_pos = any(...)
AiFetchPositions ==
    /\ pc = "cycle" /\ bot = "ai"
    /\ \/ /\ has_pos' = pos_open
          /\ pc' = "checked"
          /\ UNCHANGED failed
       \/ /\ Raise("position fetch")
          /\ UNCHANGED has_pos
    /\ UNCHANGED <<pos_open, resting, notes, calls, tp_ok, sl_ok, proba_up, s_news, side>>
    /\ LoopFrame

\* eth: open_size = get_open_position_size(ex, symbol), whose own
\* "except Exception: pass" turns a failed query into 0.0.
GetOpenPositionSize ==
    /\ pc = "cycle" /\ bot = "eth"
    /\ \/ /\ has_pos' = pos_open
          /\ UNCHANGED failed
       \/ /\ has_pos' = FALSE
          /\ failed' = failed \cup {"position fetch"}
    /\ pc' = "checked"
    /\ UNCHANGED <<pos_open, resting, notes, calls, tp_ok, sl_ok, proba_up, s_news, side>>
    /\ LoopFrame

\* if has_pos / if open_size > 0: tg("Position already open ...")
SkipOpenPosition ==
    /\ pc = "checked" /\ has_pos
    /\ notes' = tg("Position already open")
    /\ pc' = "sleep"
    /\ UNCHANGED <<pos_open, resting, has_pos, calls, failed, tp_ok, sl_ok,
                   proba_up, s_news, side>>
    /\ LoopFrame

\* ai: df = fetch_candles_df(...)
AiFetchCandles ==
    /\ pc = "checked" /\ ~has_pos /\ bot = "ai"
    /\ \/ pc' = "decide" /\ UNCHANGED failed
       \/ Raise("candle fetch")
    /\ UNCHANGED <<pos_open, resting, has_pos, notes, calls, tp_ok, sl_ok,
                   proba_up, s_news, side>>
    /\ LoopFrame

\* ai: side, diag = signals.decide_direction(...); tg("Signal diag");
\* if side in ("long", "short"): open_position(...) else: tg("SKIP")
\* decide_direction raises when price_model_signal does.
AiDecide ==
    /\ pc = "decide" /\ bot = "ai"
    /\ \/ /\ Raise("decision")
          /\ UNCHANGED <<proba_up, s_news, side, notes>>
       \/ \E p \in LoopProba, s \in LoopNews :
            /\ proba_up' = p
            /\ s_news' = s
            /\ side' = decide_direction(p, s, cfg)
            /\ IF side' \in {"long", "short"}
               THEN /\ notes' = tg("Signal diag")
                    /\ pc' = "open"
               ELSE /\ notes' = tg("Signal diag") \cup {"SKIP"}
                    /\ pc' = "sleep"
            /\ UNCHANGED failed
    /\ UNCHANGED <<pos_open, resting, has_pos, calls, tp_ok, sl_ok>>
    /\ LoopFrame

\* eth: else: place_entry_with_tpsl(ex, cfg, TG_TOKEN, TG_CHAT)
EthPlace ==
    /\ pc = "checked" /\ ~has_pos /\ bot = "eth"
    /\ pc' = "open"
    /\ UNCHANGED <<pos_open, resting, has_pos, notes, calls, failed, tp_ok, sl_ok,
                   proba_up, s_news, side>>
    /\ LoopFrame

\* ai open_position, up to the entry order: fetch_ticker and market (either
\* may raise), the preview, "if dry: ... return", then set_leverage_margin.
AiOpenPrepare ==
    /\ pc = "open" /\ bot = "ai"
    /\ \/ /\ Raise("order placement")
          /\ UNCHANGED <<notes, calls>>
       \/ /\ dry
          /\ notes' = tg("AI SIGNAL") \cup {"DRY-RUN"}
          /\ pc' = "sleep"
          /\ UNCHANGED <<failed, calls>>
       \/ /\ ~dry
          /\ notes' = tg("AI SIGNAL")
          /\ \E lev \in LeverageCalls : calls' = calls \o lev
          /\ pc' = "entry"
          /\ UNCHANGED failed
    /\ UNCHANGED <<pos_open, resting, has_pos, tp_ok, sl_ok, proba_up, s_news, side>>
    /\ LoopFrame

\* eth place_entry_with_tpsl, up to the entry order: side_to_order (raises on
\* a side that is neither long nor short), market and fetch_last (either may
\* raise), apply_leverage_margin, the preview, then "if dry: ... return".
EthOpenPrepare ==
    /\ pc = "open" /\ bot = "eth"
    /\ \/ /\ Raise("order placement")
          /\ UNCHANGED <<notes, calls>>
       \/ /\ side \in {"long", "short"}
          /\ \E lev \in LeverageCalls : calls' = calls \o lev
          /\ IF dry
             THEN notes' = tg("Plan") \cup {"DRY-RUN"} /\ pc' = "sleep"
             ELSE notes' = tg("Plan") /\ pc' = "entry"
          /\ UNCHANGED failed
    /\ UNCHANGED <<pos_open, resting, has_pos, tp_ok, sl_ok, proba_up, s_news, side>>
    /\ LoopFrame

\* order = ex.create_order(symbol, entry_ty, order_side, amount, ...,
\* {"reduceOnly": False}), then the entry price.  A market order that is
\* accepted fills: the position is open.  A limit order rests until filled.
\* For a market order without a price the ticker is read again, which may
\* raise after the order was accepted.
OpenEntry ==
    /\ pc = "entry"
    /\ \/ /\ calls' = Append(calls, Order("entry", order_side(side), FALSE, FALSE))
          /\ Raise("order placement")
          /\ UNCHANGED <<pos_open, resting>>
       \/ /\ calls' = Append(calls, Order("entry", order_side(side), FALSE, TRUE))
          /\ IF entry_ty = "market"
             THEN pos_open' = TRUE /\ UNCHANGED resting
             ELSE resting' = Min(resting + 1, MaxResting) /\ UNCHANGED pos_open
          /\ \/ pc' = "tp" /\ UNCHANGED failed
             \/ entry_ty = "market" /\ Raise("order placement")
    /\ UNCHANGED <<has_pos, notes, tp_ok, sl_ok, proba_up, s_news, side>>
    /\ LoopFrame

\* try: ex.create_order(symbol, "market", exit_side, pos_amt, None, tp_params)
\* except: tp_ok = False; tg("TP failed")
OpenTakeProfit ==
    /\ pc = "tp"
    /\ \E ok \in BOOLEAN :
        /\ calls' = Append(calls, Order("tp", exit_side(side), TRUE, ok))
        /\ tp_ok' = ok
        /\ notes' = IF ok THEN notes ELSE tg("TP failed")
        /\ failed' = IF ok THEN failed ELSE failed \cup {"take profit"}
    /\ pc' = "sl"
    /\ UNCHANGED <<pos_open, resting, has_pos, sl_ok, proba_up, s_news, side>>
    /\ LoopFrame

\* tg("ENTERED ... TP (OK|ERR) | SL (OK|ERR)"): the final notification, with
\* what it reports for each exit order.
Entered(tp, sl) ==
    CASE tp /\ sl   -> "ENTERED TP OK SL OK"
      [] tp /\ ~sl  -> "ENTERED TP OK SL ERR"
      [] ~tp /\ sl  -> "ENTERED TP ERR SL OK"
      [] OTHER      -> "ENTERED TP ERR SL ERR"

\* A slip a rewrite could make: both exit orders in one try block, so a
\* failed take-profit skips the stop-loss.
OpenStopLoss_skipped ==
    /\ pc = "sl"
    /\ IF tp_ok
       THEN \E ok \in BOOLEAN :
               /\ calls' = Append(calls, Order("sl", exit_side(side), TRUE, ok))
               /\ sl_ok' = ok
               /\ notes' = (IF ok THEN notes ELSE tg("SL failed"))
                               \cup {Entered(tp_ok, ok)}
               /\ failed' = IF ok THEN failed ELSE failed \cup {"stop loss"}
       ELSE /\ sl_ok' = FALSE
            /\ notes' = tg(Entered(tp_ok, FALSE))
            /\ UNCHANGED <<calls, failed>>
    /\ pc' = "sleep"
    /\ UNCHANGED <<pos_open, resting, has_pos, tp_ok, proba_up, s_news, side>>
    /\ LoopFrame

\* try: ex.create_order(symbol, "market", exit_side, pos_amt, None, sl_params)
\* except: sl_ok = False; tg("SL failed")
\* tg("ENTERED ... TP (OK|ERR) | SL (OK|ERR)")
OpenStopLoss ==
    /\ pc = "sl"
    /\ \E ok \in BOOLEAN :
        /\ calls' = Append(calls, Order("sl", exit_side(side), TRUE, ok))
        /\ sl_ok' = ok
        /\ notes' = (IF ok THEN notes ELSE tg("SL failed")) \cup {Entered(tp_ok, ok)}
        /\ failed' = IF ok THEN failed ELSE failed \cup {"stop loss"}
    /\ pc' = "sleep"
    /\ UNCHANGED <<pos_open, resting, has_pos, tp_ok, proba_up, s_news, side>>
    /\ LoopFrame

\* except Exception as e: tg("Loop error: ...")
LoopExcept ==
    /\ pc = "except"
    /\ notes' = tg("Loop error")
    /\ pc' = "sleep"
    /\ UNCHANGED <<pos_open, resting, has_pos, calls, failed, tp_ok, sl_ok,
                   proba_up, s_news, side>>
    /\ LoopFrame

\* finally: time.sleep(interval * 60), then the next iteration of while True.
LoopSleep ==
    /\ pc = "sleep"
    /\ cycles < MaxCycles
    /\ cycles' = cycles + 1
    /\ pc' = "cycle"
    /\ has_pos' = FALSE
    /\ notes' = {}
    /\ calls' = << >>
    /\ failed' = {}
    /\ tp_ok' = TRUE
    /\ sl_ok' = TRUE
    /\ UNCHANGED <<bot, dry, entry_ty, pos_open, resting, proba_up, s_news, side, notLoop>>

\* The exchange: the open position is closed (an exit order triggers, a
\* liquidation, the account's owner).
ExchangeCloses ==
    /\ pos_open
    /\ pos_open' = FALSE
    /\ UNCHANGED <<pc, resting, has_pos, notes, calls, failed, tp_ok, sl_ok,
                   proba_up, s_news, side>>
    /\ LoopFrame

\* The exchange: a resting limit entry order fills.
ExchangeFills ==
    /\ resting > 0
    /\ resting' = resting - 1
    /\ pos_open' = TRUE
    /\ UNCHANGED <<pc, has_pos, notes, calls, failed, tp_ok, sl_ok,
                   proba_up, s_news, side>>
    /\ LoopFrame

NextLoop ==
    \/ AiFetchPositions \/ GetOpenPositionSize \/ SkipOpenPosition
    \/ AiFetchCandles \/ AiDecide \/ EthPlace
    \/ AiOpenPrepare \/ EthOpenPrepare
    \/ OpenEntry \/ OpenTakeProfit \/ OpenStopLoss
    \/ LoopExcept \/ LoopSleep
    \/ ExchangeCloses \/ ExchangeFills

SpecLoop == InitLoop /\ [][NextLoop]_vars

---------------------------------------------------------------------------
(* Claims about the polling loops *)

\* C9: whenever a call of the position fetch, the candle fetch, the decision
\* or the order placement has raised in a cycle, control is in the loop's
\* except clause or past it, and by the time the loop sleeps the 'Loop error'
\* notification was sent: no further stage of the cycle runs.
C9_CaughtAtCycleBoundary ==
    failed \cap {"position fetch", "candle fetch", "decision", "order placement"} # {}
        => /\ pc \in {"except", "sleep"}
           /\ pc = "sleep" => "Loop error" \in notes

\* C10: no entry order of a cycle was submitted while a position was open on
\* the exchange.
C10_NoEntryWhilePositionOpen ==
    \A i \in 1..Len(calls) :
        (calls[i].fn = "create_order" /\ calls[i].role = "entry")
            => ~calls[i].position_open

---------------------------------------------------------------------------
(* Claims about order placement *)

\* The positions of this cycle's create_order calls with the given role.
OrdersOf(role) ==
    {i \in 1..Len(calls) : calls[i].fn = "create_order" /\ calls[i].role = role}

EnteredNotes ==
    {"ENTERED TP OK SL OK", "ENTERED TP OK SL ERR",
     "ENTERED TP ERR SL OK", "ENTERED TP ERR SL ERR"}

DryRunNotes == {"AI SIGNAL", "Plan", "DRY-RUN"}

\* C13: when dry_run is true a cycle invokes neither create_order nor
\* setLeverage nor setMarginMode, in either bot, and a cycle that reached the
\* DRY-RUN notice sent nothing but it and the preview.
C13_DryRunNoExchangeCall ==
    dry => /\ calls = << >>
           /\ "DRY-RUN" \in notes => notes \subseteq DryRunNotes

=============================================================================
